---- MODULE Spec2Model ----
(***************************************************************************)
(* Model of sixtyfps_runtime/interpreter/api.rs: the dynamically typed     *)
(* Value, its conversions from and to native types, and the strong / weak  *)
(* handles (ComponentInstance, WeakComponentInstance) over a live          *)
(* component instance.                                                     *)
(***************************************************************************)
EXTENDS Integers, Sequences, FiniteSets, TLC

VARIABLES
    handles,      \* handle slot -> [kind, inst]: the ComponentInstance / WeakComponentInstance values the host holds
    strongCount,  \* instance -> strong count of its VRc control block
    weakCount,    \* instance -> weak count of its VRc control block
    status,       \* instance -> "fresh" (not created) | "alive" | "destroyed"
    dropCount,    \* instance -> number of times its payload was destroyed
    props,        \* instance -> property name -> Value (the live property table)
    callbacks,    \* instance -> callback name -> registered handler ("": none)
    result,       \* what the last handle operation returned to the host
    conv          \* the last conversion performed and what it returned

vars == <<handles, strongCount, weakCount, status, dropCount, props, callbacks, result, conv>>

handleVars == <<handles, strongCount, weakCount, status, dropCount, props, callbacks, result>>

(***************************************************************************)
(* Bounds of the model.                                                    *)
(***************************************************************************)
MaxHandles == 3
MaxInst == 2

HandleIds == 1..MaxHandles
Instances == 1..MaxInst

(***************************************************************************)
(* Binary arithmetic on bit sequences (most significant bit first), used   *)
(* for 64-bit integers and IEEE-754 significands.                          *)
(***************************************************************************)
RECURSIVE Zeros(_)
Zeros(n) == IF n <= 0 THEN <<>> ELSE <<0>> \o Zeros(n - 1)

RECURSIVE Ones(_)
Ones(n) == IF n <= 0 THEN <<>> ELSE <<1>> \o Ones(n - 1)

RECURSIVE Strip(_)
Strip(b) == IF b = <<>> THEN <<>> ELSE IF Head(b) = 1 THEN b ELSE Strip(Tail(b))

RECURSIVE TrailingZeros(_)
TrailingZeros(b) ==
    IF b = <<>> \/ b[Len(b)] = 1 THEN 0 ELSE 1 + TrailingZeros(SubSeq(b, 1, Len(b) - 1))

RECURSIVE Inc(_)
Inc(b) ==
    IF b = <<>> THEN <<1>>
    ELSE IF b[Len(b)] = 0 THEN SubSeq(b, 1, Len(b) - 1) \o <<1>>
    ELSE Inc(SubSeq(b, 1, Len(b) - 1)) \o <<0>>

RECURSIVE NatBits(_)
NatBits(n) == IF n = 0 THEN <<>> ELSE NatBits(n \div 2) \o <<n % 2>>

RECURSIVE BitsNat(_)
BitsNat(b) == IF b = <<>> THEN 0 ELSE 2 * BitsNat(SubSeq(b, 1, Len(b) - 1)) + b[Len(b)]

\* a < b for bit sequences without leading zeros
BitsLess(a, b) ==
    \/ Len(a) < Len(b)
    \/ /\ Len(a) = Len(b)
       /\ \E i \in 1..Len(a) : a[i] < b[i] /\ \A j \in 1..(i - 1) : a[j] = b[j]

(***************************************************************************)
(* Native numbers.  An integer is [neg, mag]; a float is NaN, an infinity  *)
(* or sig * 2^exp with sig an odd bit sequence (empty for zero).           *)
(***************************************************************************)
IntTypes == {"u32", "u64", "i32", "i64", "usize", "isize"}
FloatTypes == {"f32", "f64"}
NumberTypes == IntTypes \cup FloatTypes

Signed(ty) == ty \in {"i32", "i64", "isize"}
\* usize and isize are 64 bits wide on the 64-bit targets the interpreter is built for
Width(ty) == IF ty \in {"u32", "i32"} THEN 32 ELSE 64
Precision(ty) == IF ty = "f32" THEN 24 ELSE 53
MaxExponent(ty) == IF ty = "f32" THEN 128 ELSE 1024

IntVal(neg, mag) == [neg |-> neg /\ mag # <<>>, mag |-> mag]
NaN == [cls |-> "nan"]
Inf(neg) == [cls |-> "inf", neg |-> neg]
Fin(neg, sig, exp) ==
    LET z == TrailingZeros(sig)
        s == SubSeq(sig, 1, Len(sig) - z)
    IN  [cls |-> "fin", neg |-> neg, sig |-> s, exp |-> IF s = <<>> THEN 0 ELSE exp + z]

MaxMag(ty, neg) ==
    IF Signed(ty) THEN (IF neg THEN <<1>> \o Zeros(Width(ty) - 1) ELSE Ones(Width(ty) - 1))
    ELSE (IF neg THEN <<>> ELSE Ones(Width(ty)))

\* sig * 2^exp rounded to a float of type ty: round to nearest, ties to even
RoundTo(ty, neg, sig, exp) ==
    LET p == Precision(ty)
        n == Len(sig)
    IN  IF n <= p THEN Fin(neg, sig, exp)
        ELSE LET keep == SubSeq(sig, 1, p)
                 rest == SubSeq(sig, p + 1, n)
                 sticky == \E i \in 2..Len(rest) : rest[i] = 1
                 up == rest[1] = 1 /\ (sticky \/ keep[p] = 1)
                 kept == IF up THEN Inc(keep) ELSE keep
             IN  IF Len(kept) + (exp + n - p) > MaxExponent(ty) THEN Inf(neg)
                 ELSE Fin(neg, kept, exp + n - p)

\* a cast that goes through f32 on the way: `v as f32 as f64`
AsF64_single(ty, v) ==
    LET x == IF ty \in IntTypes THEN RoundTo("f32", v.neg, v.mag, 0)
             ELSE IF v.cls = "fin" THEN RoundTo("f32", v.neg, v.sig, v.exp)
             ELSE v
    IN  IF x.cls = "fin" THEN RoundTo("f64", x.neg, x.sig, x.exp) ELSE x

\* `v as f64` for v of the native number type ty
AsF64(ty, v) ==
    IF ty \in IntTypes THEN RoundTo("f64", v.neg, v.mag, 0)
    ELSE IF v.cls = "fin" THEN RoundTo("f64", v.neg, v.sig, v.exp)
    ELSE v

\* `x as ty` for an f64 x: floats round, integers truncate toward zero and saturate
F64As(ty, x) ==
    IF ty \in FloatTypes THEN
        (IF x.cls = "fin" THEN RoundTo(ty, x.neg, x.sig, x.exp) ELSE x)
    ELSE IF x.cls = "nan" THEN IntVal(FALSE, <<>>)
    ELSE IF x.cls = "inf" THEN IntVal(x.neg, MaxMag(ty, x.neg))
    ELSE LET mag == IF x.exp >= 0 THEN x.sig \o Zeros(x.exp)
                    ELSE SubSeq(x.sig, 1, Len(x.sig) + x.exp)
             top == MaxMag(ty, x.neg)
         IN  IF BitsLess(top, mag) THEN IntVal(x.neg, top) ELSE IntVal(x.neg, mag)

\* == on native numbers: NaN differs from everything, itself included
NativeNumEq(a, b) ==
    IF "cls" \in DOMAIN a /\ "cls" \in DOMAIN b /\ (a.cls = "nan" \/ b.cls = "nan") THEN FALSE
    ELSE a = b

F64OfNat(n) == Fin(FALSE, NatBits(n), 0)

(***************************************************************************)
(* Value: the closed tagged union.                                         *)
(***************************************************************************)
Void == [tag |-> "Void"]
Number(x) == [tag |-> "Number", num |-> x]
String(s) == [tag |-> "String", str |-> s]
Bool(b) == [tag |-> "Bool", bool |-> b]
Image(i) == [tag |-> "Image", img |-> i]
Array(a) == [tag |-> "Array", items |-> a]
Struct(s) == [tag |-> "Struct", fields |-> s]
Brush(b) == [tag |-> "Brush", brush |-> b]
PathElements(p) == [tag |-> "PathElements", path |-> p]
EasingCurve(c) == [tag |-> "EasingCurve", curve |-> c]
EnumerationValue(n, m) == [tag |-> "EnumerationValue", name |-> n, value |-> m]
\* Model(Rc<dyn Model>): the value holds the address of a shared allocation
Model(rc) == [tag |-> "Model", rc |-> rc]

Default == Void

(***************************************************************************)
(* Native values of the types Value converts from and to.                  *)
(***************************************************************************)
NStr(x) == [s |-> x]
NBool(x) == [b |-> x]
NImage(x) == [img |-> x]
NStruct(x) == [fields |-> x]
NBrush(x) == [brush |-> x]
NPath(x) == [path |-> x]
NCurve(x) == [curve |-> x]
NColor(c) == [color |-> c]
NVec(a) == [items |-> a]
NInstant(u) == [ms |-> u]
NUnit == [unit |-> TRUE]
NRecord(ty, f) == [record |-> ty, f |-> f]
NEnum(ty, k) == [enum |-> ty, member |-> k]

SolidColor(c) == [kind |-> "SolidColor", color |-> c]
LinearGradient == [kind |-> "LinearGradient", angle |-> "90deg"]

\* the types given to declare_value_conversion!, with the variant each maps to
PrimTypes ==
    NumberTypes \cup {"SharedString", "bool", "ImageReference", "Struct", "Brush", "PathData", "EasingCurve"}

ValueTag(ty) ==
    CASE ty \in NumberTypes -> "Number"
      [] ty = "SharedString" -> "String"
      [] ty = "bool" -> "Bool"
      [] ty = "ImageReference" -> "Image"
      [] ty = "Struct" -> "Struct"
      [] ty = "Brush" -> "Brush"
      [] ty = "PathData" -> "PathElements"
      [] ty = "EasingCurve" -> "EasingCurve"

(***************************************************************************)
(* Struct: a HashMap<String, Value>.                                       *)
(***************************************************************************)
EmptyStruct == [n \in {} |-> Void]

Some(x) == [some |-> TRUE, val |-> x]
None == [some |-> FALSE]

Struct_get_property(x, name) == IF name \in DOMAIN x THEN Some(x[name]) ELSE None

Struct_set_property(x, name, value) ==
    [n \in DOMAIN x \cup {name} |-> IF n = name THEN value ELSE x[n]]

(***************************************************************************)
(* The native records and enumerations with a declared conversion.         *)
(***************************************************************************)
StructTypes == {"StandardListViewItem", "StateInfo", "KeyboardModifiers", "KeyEvent"}

Fields(ty) ==
    CASE ty = "StandardListViewItem" -> <<"text">>
      [] ty = "StateInfo" -> <<"current_state", "previous_state", "change_time">>
      [] ty = "KeyboardModifiers" -> <<"control", "alt", "shift", "meta">>
      [] ty = "KeyEvent" -> <<"event_type", "text", "modifiers">>

FieldNames(ty) == {Fields(ty)[k] : k \in 1..Len(Fields(ty))}

FieldType(ty, f) ==
    CASE ty = "StandardListViewItem" -> "SharedString"
      [] ty = "StateInfo" -> (IF f = "change_time" THEN "Instant" ELSE "i32")
      [] ty = "KeyboardModifiers" -> "bool"
      [] ty = "KeyEvent" ->
            (IF f = "event_type" THEN "KeyEventType"
             ELSE IF f = "text" THEN "SharedString" ELSE "KeyboardModifiers")

EnumTypes ==
    {"TextHorizontalAlignment", "TextVerticalAlignment", "TextOverflow", "TextWrap",
     "LayoutAlignment", "ImageFit", "KeyEventType", "EventResult", "FillRule"}

\* stringify!($n): the name given to declare_value_enum_conversion! for the type
EnumName(ty) == ty

Members(ty) ==
    CASE ty = "TextHorizontalAlignment" -> <<"align_left", "align_center", "align_right">>
      [] ty = "TextVerticalAlignment" -> <<"align_top", "align_center", "align_bottom">>
      [] ty = "TextOverflow" -> <<"clip", "elide">>
      [] ty = "TextWrap" -> <<"no_wrap", "word_wrap">>
      [] ty = "LayoutAlignment" -> <<"stretch", "center", "start", "end">>
      [] ty = "ImageFit" -> <<"fill", "contain">>
      [] ty = "KeyEventType" -> <<"KeyPressed", "KeyReleased">>
      [] ty = "EventResult" -> <<"reject", "accept">>
      [] ty = "FillRule" -> <<"nonzero", "evenodd">>

\* Display (strum): the member's text
to_string(ty, k) == Members(ty)[k]

\* FromStr (strum): the member with that text, if there is one
from_str(ty, text) ==
    IF \E k \in 1..Len(Members(ty)) : Members(ty)[k] = text
    THEN [ok |-> TRUE, val |-> NEnum(ty, CHOOSE k \in 1..Len(Members(ty)) : Members(ty)[k] = text)]
    ELSE [ok |-> FALSE]

OtherTypes == {"Instant", "unit", "Color", "Vec"}
AllTypes == PrimTypes \cup StructTypes \cup EnumTypes \cup OtherTypes

(***************************************************************************)
(* From<T> for Value.                                                      *)
(***************************************************************************)
\* declare_value_conversion!: Value::$value(v as _)
FromPrim(ty, v) ==
    CASE ty \in NumberTypes -> Number(AsF64(ty, v))
      [] ty = "SharedString" -> String(v.s)
      [] ty = "bool" -> Bool(v.b)
      [] ty = "ImageReference" -> Image(v.img)
      [] ty = "Struct" -> Struct(v.fields)
      [] ty = "Brush" -> Brush(v.brush)
      [] ty = "PathData" -> PathElements(v.path)
      [] ty = "EasingCurve" -> EasingCurve(v.curve)

\* declare_value_enum_conversion!: the type's name and the member's text
FromEnum(ty, v) == EnumerationValue(EnumName(ty), to_string(ty, v.member))

FromInstant(v) == Number(AsF64("u64", v.ms))

FromUnit(v) == Void

FromColor(v) == Brush(SolidColor(v.color))

FromVec(v) == Array(v.items)

RECURSIVE From(_, _)
RECURSIVE FromStructFields(_, _, _, _)

\* declare_value_struct_conversion!: struct_.set_property(stringify!($field), $field.into()) per field
FromStructFields(ty, v, k, acc) ==
    IF k > Len(Fields(ty)) THEN acc
    ELSE LET f == Fields(ty)[k]
         IN  FromStructFields(ty, v, k + 1,
                 Struct_set_property(acc, f, From(FieldType(ty, f), v.f[f])))

FromStruct(ty, v) == Struct(FromStructFields(ty, v, 1, EmptyStruct))

From(ty, v) ==
    CASE ty \in PrimTypes -> FromPrim(ty, v)
      [] ty \in StructTypes -> FromStruct(ty, v)
      [] ty \in EnumTypes -> FromEnum(ty, v)
      [] ty = "Instant" -> FromInstant(v)
      [] ty = "unit" -> FromUnit(v)
      [] ty = "Color" -> FromColor(v)
      [] ty = "Vec" -> FromVec(v)

(***************************************************************************)
(* TryInto<T> for Value.                                                   *)
(***************************************************************************)
Ok(x) == [ok |-> TRUE, val |-> x]
Err(e) == [ok |-> FALSE, err |-> e]

\* the payload of a Value of variant ValueTag(ty), as the native type ty
PrimOf(ty, val) ==
    CASE ty \in NumberTypes -> F64As(ty, val.num)
      [] ty = "SharedString" -> NStr(val.str)
      [] ty = "bool" -> NBool(val.bool)
      [] ty = "ImageReference" -> NImage(val.img)
      [] ty = "Struct" -> NStruct(val.fields)
      [] ty = "Brush" -> NBrush(val.brush)
      [] ty = "PathData" -> NPath(val.path)
      [] ty = "EasingCurve" -> NCurve(val.curve)

\* a failed conversion that hands back Value::default() instead of the input
TryIntoPrim_default(ty, val) ==
    IF val.tag = ValueTag(ty) THEN Ok(PrimOf(ty, val)) ELSE Err(Default)

\* declare_value_conversion!: Self::$value(x) => Ok(x as _), _ => Err(self)
TryIntoPrim(ty, val) ==
    IF val.tag = ValueTag(ty) THEN Ok(PrimOf(ty, val)) ELSE Err(val)

\* an enumeration conversion that parses the member text without comparing the type name
TryIntoEnum_anyname(ty, val) ==
    IF val.tag = "EnumerationValue"
    THEN LET r == from_str(ty, val.value) IN IF r.ok THEN Ok(r.val) ELSE Err(NUnit)
    ELSE Err(NUnit)

\* declare_value_enum_conversion!: the stored name must be the type's, the text must parse
TryIntoEnum(ty, val) ==
    IF val.tag = "EnumerationValue"
    THEN IF val.name # EnumName(ty) THEN Err(NUnit)
         ELSE LET r == from_str(ty, val.value) IN IF r.ok THEN Ok(r.val) ELSE Err(NUnit)
    ELSE Err(NUnit)

TryIntoInstant(val) ==
    IF val.tag = "Number" THEN Ok(NInstant(F64As("u64", val.num))) ELSE Err(NUnit)

TryIntoUnit(val) == Ok(NUnit)

TryIntoColor(val) ==
    IF val.tag = "Brush" /\ val.brush.kind = "SolidColor" THEN Ok(NColor(val.brush.color))
    ELSE Err(val)

TryIntoVec(val) == IF val.tag = "Array" THEN Ok(NVec(val.items)) ELSE Err(val)

RECURSIVE TryInto(_, _)
RECURSIVE TryIntoStructFields(_, _, _, _)

\* a record conversion that leaves out the fields it cannot fill instead of failing
TryIntoStructFields_partial(ty, x, k, acc) ==
    IF k > Len(Fields(ty)) THEN Ok(NRecord(ty, acc))
    ELSE LET f == Fields(ty)[k]
             got == Struct_get_property(x, f)
             r == IF got.some THEN TryInto(FieldType(ty, f), got.val) ELSE Err(NUnit)
         IN  TryIntoStructFields(ty, x, k + 1,
                 IF r.ok THEN Struct_set_property(acc, f, r.val) ELSE acc)

\* $field: x.get_property(stringify!($field)).ok_or(())?.clone().try_into().map_err(|_|())? per field
TryIntoStructFields(ty, x, k, acc) ==
    IF k > Len(Fields(ty)) THEN Ok(NRecord(ty, acc))
    ELSE LET f == Fields(ty)[k]
             got == Struct_get_property(x, f)
         IN  IF ~got.some THEN Err(NUnit)
             ELSE LET r == TryInto(FieldType(ty, f), got.val)
                  IN  IF ~r.ok THEN Err(NUnit)
                      ELSE TryIntoStructFields(ty, x, k + 1, Struct_set_property(acc, f, r.val))

\* declare_value_struct_conversion!: Self::Struct(x) => Ok(Ty { .. }), _ => Err(())
TryIntoStruct(ty, val) ==
    IF val.tag = "Struct" THEN TryIntoStructFields(ty, val.fields, 1, EmptyStruct)
    ELSE Err(NUnit)

TryInto(ty, val) ==
    CASE ty \in PrimTypes -> TryIntoPrim(ty, val)
      [] ty \in StructTypes -> TryIntoStruct(ty, val)
      [] ty \in EnumTypes -> TryIntoEnum(ty, val)
      [] ty = "Instant" -> TryIntoInstant(val)
      [] ty = "unit" -> TryIntoUnit(val)
      [] ty = "Color" -> TryIntoColor(val)
      [] ty = "Vec" -> TryIntoVec(val)

(***************************************************************************)
(* The compiled component the instances are created from: its public       *)
(* properties with their types, and its callbacks.                         *)
(***************************************************************************)
DeclaredProperties == {"count"}
DeclaredCallbacks == {"increment", "reset"}
PropertyType(name) == "Number"
\* the names the host asks for: the declared ones and one that is not declared
PropertyNames == DeclaredProperties \cup {"nonexistent"}
\* the callback names of a host that looks names up: a declared one and one that is not
CallbackNames == {"increment", "nonexistent"}

\* the host closures registered as handlers ("": none registered)
Handlers == {"h1", "h2"}
ArgLists == {<<>>, <<Bool(TRUE)>>}
HostValues == {Number(F64OfNat(0)), Number(F64OfNat(1)), String("hello")}

DefaultProps == [name \in DeclaredProperties |-> Number(F64OfNat(0))]
NoHandlers == [name \in DeclaredCallbacks |-> ""]

\* the host closure registered as handler k, applied to args
HandlerResult(k, args) == String(k)

NoRun == [handler |-> "", args |-> <<>>]
Ran(k, args) == [handler |-> k, args |-> args]

(***************************************************************************)
(* ComponentDescription primitives, keyed by name, on the instance i.      *)
(***************************************************************************)
Desc_get_property(i, name) ==
    IF name \in DeclaredProperties THEN [ok |-> TRUE, value |-> props[i][name]]
    ELSE [ok |-> FALSE, value |-> Void]

Desc_set_property(i, name, value) ==
    IF name \in DeclaredProperties /\ value.tag = PropertyType(name)
    THEN [ok |-> TRUE, props |-> [props EXCEPT ![i][name] = value]]
    ELSE [ok |-> FALSE, props |-> props]

Desc_set_callback_handler(i, name, k) ==
    IF name \in DeclaredCallbacks
    THEN [ok |-> TRUE, callbacks |-> [callbacks EXCEPT ![i][name] = k]]
    ELSE [ok |-> FALSE, callbacks |-> callbacks]

\* with no handler registered the component's own handler runs and returns Void
Desc_invoke_callback(i, name, args) ==
    IF name \notin DeclaredCallbacks
    THEN [ok |-> FALSE, value |-> Void, props |-> props, ran |-> NoRun]
    ELSE IF callbacks[i][name] = ""
    THEN [ok |-> TRUE, value |-> Void, props |-> props, ran |-> Ran("default", args)]
    ELSE [ok |-> TRUE, value |-> HandlerResult(callbacks[i][name], args),
          props |-> props, ran |-> Ran(callbacks[i][name], args)]

(***************************************************************************)
(* vtable::VRc / VWeak: the reference-counted control block.               *)
(***************************************************************************)
VRc_clone(sc, i) == [sc EXCEPT ![i] = @ + 1]

VRc_downgrade(wc, i) == [wc EXCEPT ![i] = @ + 1]

VWeak_clone(wc, i) == [wc EXCEPT ![i] = @ + 1]

VWeak_upgrade(sc, i) ==
    IF sc[i] > 0 THEN [some |-> TRUE, sc |-> [sc EXCEPT ![i] = @ + 1]]
    ELSE [some |-> FALSE, sc |-> sc]

\* dropping a VRc: the payload is destroyed when the strong count reaches 0
VRc_drop(i) ==
    /\ strongCount' = [strongCount EXCEPT ![i] = @ - 1]
    /\ IF strongCount[i] = 1
       THEN /\ status' = [status EXCEPT ![i] = "destroyed"]
            /\ dropCount' = [dropCount EXCEPT ![i] = @ + 1]
            /\ props' = [props EXCEPT ![i] = DefaultProps]
            /\ callbacks' = [callbacks EXCEPT ![i] = NoHandlers]
       ELSE UNCHANGED <<status, dropCount, props, callbacks>>

VWeak_drop(i) == weakCount' = [weakCount EXCEPT ![i] = @ - 1]

(***************************************************************************)
(* The handles the host holds.                                             *)
(***************************************************************************)
Free == [kind |-> "free", inst |-> 0]
StrongHandle(i) == [kind |-> "strong", inst |-> i]
WeakHandle(i) == [kind |-> "weak", inst |-> i]

IsStrong(h) == handles[h].kind = "strong"
IsWeak(h) == handles[h].kind = "weak"
IsFree(h) == handles[h].kind = "free"
InstOf(h) == handles[h].inst

\* the slot a new handle is put in: the lowest free one
HasSlot == \E n \in HandleIds : IsFree(n)
NewSlot == CHOOSE n \in HandleIds : IsFree(n) /\ \A m \in HandleIds : IsFree(m) => n <= m

Res(op, name, outcome, value, ran) ==
    [op |-> op, name |-> name, outcome |-> outcome, value |-> value, ran |-> ran]

\* a panic ends the host program
Running == result.outcome # "panic"

Init ==
    /\ handles = [h \in HandleIds |-> Free]
    /\ strongCount = [i \in Instances |-> 0]
    /\ weakCount = [i \in Instances |-> 0]
    /\ status = [i \in Instances |-> "fresh"]
    /\ dropCount = [i \in Instances |-> 0]
    /\ props = [i \in Instances |-> DefaultProps]
    /\ callbacks = [i \in Instances |-> NoHandlers]
    /\ result = Res("none", "", "unit", Void, NoRun)
    /\ conv = [op |-> "none"]

\* ComponentDefinition::create: a new instance i, held by one strong handle
create(i) ==
    /\ Running
    /\ HasSlot
    /\ status[i] = "fresh"
    /\ \A j \in Instances : status[j] = "fresh" => i <= j
    /\ handles' = [handles EXCEPT ![NewSlot] = StrongHandle(i)]
    /\ status' = [status EXCEPT ![i] = "alive"]
    /\ strongCount' = [strongCount EXCEPT ![i] = 1]
    /\ result' = Res("create", "", "unit", Void, NoRun)
    /\ UNCHANGED <<weakCount, dropCount, props, callbacks, conv>>

\* a clone that instantiates the component again instead of sharing the instance
clone_strong_deep(h) ==
    /\ Running
    /\ IsStrong(h)
    /\ HasSlot
    /\ \E i \in Instances :
          /\ status[i] = "fresh"
          /\ \A j \in Instances : status[j] = "fresh" => i <= j
          /\ handles' = [handles EXCEPT ![NewSlot] = StrongHandle(i)]
          /\ status' = [status EXCEPT ![i] = "alive"]
          /\ strongCount' = [strongCount EXCEPT ![i] = 1]
          /\ props' = [props EXCEPT ![i] = props[InstOf(h)]]
          /\ callbacks' = [callbacks EXCEPT ![i] = callbacks[InstOf(h)]]
    /\ result' = Res("clone_strong", "", "unit", Void, NoRun)
    /\ UNCHANGED <<weakCount, dropCount, conv>>

clone_strong(h) ==
    /\ Running
    /\ IsStrong(h)
    /\ HasSlot
    /\ handles' = [handles EXCEPT ![NewSlot] = StrongHandle(InstOf(h))]
    /\ strongCount' = VRc_clone(strongCount, InstOf(h))
    /\ result' = Res("clone_strong", "", "unit", Void, NoRun)
    /\ UNCHANGED <<weakCount, status, dropCount, props, callbacks, conv>>

\* a weak handle that keeps a strong reference: VRc::clone where VRc::downgrade is meant
as_weak_owning(h) ==
    /\ Running
    /\ IsStrong(h)
    /\ HasSlot
    /\ handles' = [handles EXCEPT ![NewSlot] = WeakHandle(InstOf(h))]
    /\ strongCount' = VRc_clone(strongCount, InstOf(h))
    /\ result' = Res("as_weak", "", "unit", Void, NoRun)
    /\ UNCHANGED <<weakCount, status, dropCount, props, callbacks, conv>>

as_weak(h) ==
    /\ Running
    /\ IsStrong(h)
    /\ HasSlot
    /\ handles' = [handles EXCEPT ![NewSlot] = WeakHandle(InstOf(h))]
    /\ weakCount' = VRc_downgrade(weakCount, InstOf(h))
    /\ result' = Res("as_weak", "", "unit", Void, NoRun)
    /\ UNCHANGED <<strongCount, status, dropCount, props, callbacks, conv>>

\* #[derive(Clone)] on WeakComponentInstance
weak_clone(w) ==
    /\ Running
    /\ IsWeak(w)
    /\ HasSlot
    /\ handles' = [handles EXCEPT ![NewSlot] = WeakHandle(InstOf(w))]
    /\ weakCount' = VWeak_clone(weakCount, InstOf(w))
    /\ result' = Res("weak_clone", "", "unit", Void, NoRun)
    /\ UNCHANGED <<strongCount, status, dropCount, props, callbacks, conv>>

\* an upgrade that hands out a strong handle without looking at the strong count
upgrade_unchecked(w) ==
    /\ Running
    /\ IsWeak(w)
    /\ HasSlot
    /\ strongCount' = [strongCount EXCEPT ![InstOf(w)] = @ + 1]
    /\ handles' = [handles EXCEPT ![NewSlot] = StrongHandle(InstOf(w))]
    /\ result' = Res("upgrade", "", "Some", Void, NoRun)
    /\ UNCHANGED <<weakCount, status, dropCount, props, callbacks, conv>>

\* self.inner.upgrade().map(|inner| ComponentInstance { inner })
upgrade(w) ==
    /\ Running
    /\ IsWeak(w)
    /\ LET up == VWeak_upgrade(strongCount, InstOf(w))
       IN  /\ up.some => HasSlot
           /\ strongCount' = up.sc
           /\ IF up.some
              THEN /\ handles' = [handles EXCEPT ![NewSlot] = StrongHandle(InstOf(w))]
                   /\ result' = Res("upgrade", "", "Some", Void, NoRun)
              ELSE /\ UNCHANGED handles
                   /\ result' = Res("upgrade", "", "None", Void, NoRun)
    /\ UNCHANGED <<weakCount, status, dropCount, props, callbacks, conv>>

\* WeakComponentInstance::unwrap: self.upgrade().unwrap()
unwrap(w) ==
    /\ Running
    /\ IsWeak(w)
    /\ LET up == VWeak_upgrade(strongCount, InstOf(w))
       IN  /\ up.some => HasSlot
           /\ strongCount' = up.sc
           /\ IF up.some
              THEN /\ handles' = [handles EXCEPT ![NewSlot] = StrongHandle(InstOf(w))]
                   /\ result' = Res("unwrap", "", "Some", Void, NoRun)
              ELSE /\ UNCHANGED handles
                   /\ result' = Res("unwrap", "", "panic", Void, NoRun)
    /\ UNCHANGED <<weakCount, status, dropCount, props, callbacks, conv>>

\* a ComponentInstance goes out of scope: its VRc is dropped
drop_strong(h) ==
    /\ Running
    /\ IsStrong(h)
    /\ handles' = [handles EXCEPT ![h] = Free]
    /\ VRc_drop(InstOf(h))
    /\ result' = Res("drop", "", "unit", Void, NoRun)
    /\ UNCHANGED <<weakCount, conv>>

\* a WeakComponentInstance goes out of scope: its VWeak is dropped
drop_weak(w) ==
    /\ Running
    /\ IsWeak(w)
    /\ handles' = [handles EXCEPT ![w] = Free]
    /\ VWeak_drop(InstOf(w))
    /\ result' = Res("drop_weak", "", "unit", Void, NoRun)
    /\ UNCHANGED <<strongCount, status, dropCount, props, callbacks, conv>>

\* what get_property(name) returns through the strong handle h
get_property_result(h, name) ==
    LET r == Desc_get_property(InstOf(h), name)
    IN  IF r.ok THEN Res("get_property", name, "Ok", r.value, NoRun)
        ELSE Res("get_property", name, "NoSuchProperty", Void, NoRun)

\* get_property with the unfinished error mapping of set_property: todo!() on Err
get_property_todo(h, name) ==
    /\ Running
    /\ IsStrong(h)
    /\ LET r == Desc_get_property(InstOf(h), name)
       IN  result' = IF r.ok THEN Res("get_property", name, "Ok", r.value, NoRun)
                     ELSE Res("get_property", name, "panic", Void, NoRun)
    /\ UNCHANGED <<handles, strongCount, weakCount, status, dropCount, props, callbacks, conv>>

get_property(h, name) ==
    /\ Running
    /\ IsStrong(h)
    /\ result' = get_property_result(h, name)
    /\ UNCHANGED <<handles, strongCount, weakCount, status, dropCount, props, callbacks, conv>>

\* .map_err(|()| todo!(..)): an Err from the description panics
set_property(h, name, value) ==
    /\ Running
    /\ IsStrong(h)
    /\ LET r == Desc_set_property(InstOf(h), name, value)
       IN  /\ props' = r.props
           /\ result' = IF r.ok THEN Res("set_property", name, "Ok", Void, NoRun)
                        ELSE Res("set_property", name, "panic", Void, NoRun)
    /\ UNCHANGED <<handles, strongCount, weakCount, status, dropCount, callbacks, conv>>

\* a set_callback that keeps the handler already registered for the name
set_callback_once(h, name, k) ==
    /\ Running
    /\ IsStrong(h)
    /\ LET r == Desc_set_callback_handler(InstOf(h), name, k)
       IN  /\ callbacks' = IF r.ok /\ callbacks[InstOf(h)][name] # "" THEN callbacks ELSE r.callbacks
           /\ result' = IF r.ok THEN Res("set_callback", name, "Ok", Void, NoRun)
                        ELSE Res("set_callback", name, "NoSuchCallback", Void, NoRun)
    /\ UNCHANGED <<handles, strongCount, weakCount, status, dropCount, props, conv>>

set_callback(h, name, k) ==
    /\ Running
    /\ IsStrong(h)
    /\ LET r == Desc_set_callback_handler(InstOf(h), name, k)
       IN  /\ callbacks' = r.callbacks
           /\ result' = IF r.ok THEN Res("set_callback", name, "Ok", Void, NoRun)
                        ELSE Res("set_callback", name, "NoSuchCallback", Void, NoRun)
    /\ UNCHANGED <<handles, strongCount, weakCount, status, dropCount, props, conv>>

\* Ok(.. .map_err(|()| todo!())?): an Err from the description panics
invoke_callback(h, name, args) ==
    /\ Running
    /\ IsStrong(h)
    /\ LET r == Desc_invoke_callback(InstOf(h), name, args)
       IN  /\ props' = r.props
           /\ result' = IF r.ok THEN Res("invoke_callback", name, "Ok", r.value, r.ran)
                        ELSE Res("invoke_callback", name, "panic", Void, r.ran)
    /\ UNCHANGED <<handles, strongCount, weakCount, status, dropCount, callbacks, conv>>

(***************************************************************************)
(* The conversions the host performs, on sample native values and Values.  *)
(***************************************************************************)
Pow2(n) == <<1>> \o Zeros(n)
\* 2^53 + 1: the first integer an f64 cannot hold
Pow2_53Plus1 == <<1>> \o Zeros(52) \o <<1>>

NativeSamples(ty) ==
    CASE ty = "u32" -> {IntVal(FALSE, <<>>), IntVal(FALSE, NatBits(100)), IntVal(FALSE, Ones(32))}
      [] ty = "i32" -> {IntVal(FALSE, <<>>), IntVal(TRUE, <<1>>), IntVal(FALSE, Ones(31)),
                        IntVal(TRUE, Pow2(31))}
      [] ty \in {"u64", "usize"} ->
            {IntVal(FALSE, <<>>), IntVal(FALSE, NatBits(100)), IntVal(FALSE, Pow2(53)),
             IntVal(FALSE, Pow2_53Plus1), IntVal(FALSE, Ones(64))}
      [] ty \in {"i64", "isize"} ->
            {IntVal(FALSE, <<>>), IntVal(TRUE, <<1>>), IntVal(TRUE, Pow2(53)),
             IntVal(TRUE, Pow2_53Plus1), IntVal(TRUE, Pow2(63)), IntVal(FALSE, Ones(63))}
      [] ty = "f32" -> {Fin(FALSE, <<>>, 0), Fin(FALSE, <<1>>, -1), Fin(TRUE, Ones(24), 0),
                        Fin(FALSE, Ones(24), 104), Inf(FALSE), NaN}
      [] ty = "f64" -> {Fin(FALSE, <<>>, 0), Fin(FALSE, <<1, 1>>, -1), Fin(TRUE, Ones(53), 0),
                        Fin(FALSE, Ones(53), 971), Inf(TRUE), NaN}
      [] ty = "SharedString" -> {NStr(""), NStr("hello")}
      [] ty = "bool" -> {NBool(TRUE), NBool(FALSE)}
      [] ty = "ImageReference" -> {NImage("logo.png")}
      [] ty = "Struct" -> {NStruct(EmptyStruct),
                           NStruct([n \in {"foo", "bar"} |->
                                       IF n = "foo" THEN Number(F64OfNat(45)) ELSE Bool(TRUE)])}
      [] ty = "Brush" -> {NBrush(SolidColor("red")), NBrush(LinearGradient)}
      [] ty = "PathData" -> {NPath("M 0 0 L 1 1")}
      [] ty = "EasingCurve" -> {NCurve("Linear")}
      [] ty = "StandardListViewItem" ->
            {NRecord(ty, [n \in {"text"} |-> NStr(t)]) : t \in {"", "hello"}}
      [] ty = "StateInfo" ->
            {NRecord(ty, [n \in FieldNames(ty) |->
                            IF n = "change_time" THEN NInstant(IntVal(FALSE, NatBits(100)))
                            ELSE IF n = "current_state" THEN c ELSE IntVal(FALSE, <<>>)]) :
                c \in {IntVal(FALSE, <<1>>), IntVal(TRUE, <<1>>)}}
      [] ty = "KeyboardModifiers" ->
            {NRecord(ty, [n \in FieldNames(ty) |-> NBool(IF n = "shift" THEN b ELSE FALSE)]) :
                b \in BOOLEAN}
      [] ty = "KeyEvent" ->
            {NRecord(ty, [n \in FieldNames(ty) |->
                            IF n = "event_type" THEN NEnum("KeyEventType", k)
                            ELSE IF n = "text" THEN NStr("a")
                            ELSE NRecord("KeyboardModifiers",
                                         [m \in FieldNames("KeyboardModifiers") |-> NBool(m = "control")])]) :
                k \in 1..2}
      [] ty \in EnumTypes -> {NEnum(ty, k) : k \in 1..Len(Members(ty))}
      [] ty = "Instant" -> {NInstant(IntVal(FALSE, <<>>)), NInstant(IntVal(FALSE, NatBits(100)))}
      [] ty = "unit" -> {NUnit}
      [] ty = "Color" -> {NColor("red")}
      [] ty = "Vec" -> {NVec(<<>>), NVec(<<Number(F64OfNat(1)), String("hello")>>)}

GoodModifiers == Struct([n \in FieldNames("KeyboardModifiers") |-> Bool(n = "alt")])
BadModifiers == Struct([n \in {"control", "alt", "shift"} |-> Bool(n = "alt")])

\* one Value of every variant, and more of those the conversions look into
SampleValues ==
    {Void,
     Number(F64OfNat(0)), Number(F64OfNat(100)), Number(Fin(TRUE, <<1, 1>>, -1)), Number(NaN),
     Number(Fin(FALSE, Pow2(64), 0)),
     String("hello"), String("align_center"), Bool(TRUE), Bool(FALSE), Image("logo.png"),
     Array(<<>>), Array(<<Number(F64OfNat(1)), String("hello")>>),
     Struct(EmptyStruct), Struct([n \in {"text"} |-> String("hello")]), GoodModifiers,
     Brush(SolidColor("red")), Brush(LinearGradient),
     PathElements("M 0 0 L 1 1"), EasingCurve("Linear"),
     EnumerationValue("TextWrap", "word_wrap")}

\* the Structs with any of the given field names, each holding any of the given Values
StructsOver(names, values) == {Struct(r) : r \in UNION {[d -> values] : d \in SUBSET names}}

FieldSamples(ty) ==
    CASE ty = "StandardListViewItem" -> {String("hello"), Number(F64OfNat(1))}
      [] ty = "StateInfo" -> {Number(F64OfNat(1)), Number(Fin(FALSE, <<1, 1>>, -1)), String("hello")}
      [] ty = "KeyboardModifiers" -> {Bool(TRUE), String("hello")}
      [] ty = "KeyEvent" -> {EnumerationValue("KeyEventType", "KeyPressed"), String("hello"),
                             GoodModifiers, BadModifiers}

StructSamples ==
    UNION {StructsOver(FieldNames(ty) \cup {"extra"}, FieldSamples(ty)) : ty \in StructTypes}

MemberTexts == UNION {{Members(ty)[k] : k \in 1..Len(Members(ty))} : ty \in EnumTypes}

EnumSamples ==
    {EnumerationValue(n, t) : n \in EnumTypes \cup {"PointerEventKind"},
                              t \in MemberTexts \cup {"Align_Center", ""}}

\* the conversions the host may ask for
FromInputs ==
    UNION {{[op |-> "input", kind |-> k, ty |-> ty, native |-> v] : v \in NativeSamples(ty)} :
              k \in {"from", "round_trip"}, ty \in AllTypes}

TryIntoInputs ==
    {[op |-> "input", kind |-> "try_into", ty |-> ty, value |-> val] :
        ty \in AllTypes, val \in SampleValues}
    \cup {[op |-> "input", kind |-> "try_into", ty |-> ty, value |-> val] :
            ty \in StructTypes, val \in StructSamples}
    \cup {[op |-> "input", kind |-> "try_into", ty |-> ty, value |-> val] :
            ty \in EnumTypes, val \in EnumSamples}

ConvInit ==
    /\ handles = [h \in HandleIds |-> Free]
    /\ strongCount = [i \in Instances |-> 0]
    /\ weakCount = [i \in Instances |-> 0]
    /\ status = [i \in Instances |-> "fresh"]
    /\ dropCount = [i \in Instances |-> 0]
    /\ props = [i \in Instances |-> DefaultProps]
    /\ callbacks = [i \in Instances |-> NoHandlers]
    /\ result = Res("none", "", "unit", Void, NoRun)
    /\ conv \in FromInputs \cup TryIntoInputs

\* Value::from(v)
from_native ==
    /\ conv.op = "input" /\ conv.kind = "from"
    /\ conv' = [op |-> "from", ty |-> conv.ty, native |-> conv.native,
                value |-> From(conv.ty, conv.native)]
    /\ UNCHANGED handleVars

\* val.try_into()
try_into ==
    /\ conv.op = "input" /\ conv.kind = "try_into"
    /\ conv' = [op |-> "try_into", ty |-> conv.ty, value |-> conv.value,
                out |-> TryInto(conv.ty, conv.value)]
    /\ UNCHANGED handleVars

\* Value::from(v).try_into()
round_trip ==
    /\ conv.op = "input" /\ conv.kind = "round_trip"
    /\ conv' = [op |-> "round_trip", ty |-> conv.ty, native |-> conv.native,
                value |-> From(conv.ty, conv.native),
                out |-> TryInto(conv.ty, From(conv.ty, conv.native))]
    /\ UNCHANGED handleVars

ConvNext == from_native \/ try_into \/ round_trip

\* the host creates, clones, downgrades, upgrades and drops handles
LifeNext ==
    \/ \E i \in Instances : create(i)
    \/ \E h \in HandleIds : clone_strong(h)
    \/ \E h \in HandleIds : as_weak(h)
    \/ \E w \in HandleIds : weak_clone(w)
    \/ \E w \in HandleIds : upgrade(w)
    \/ \E w \in HandleIds : unwrap(w)
    \/ \E h \in HandleIds : drop_strong(h)
    \/ \E w \in HandleIds : drop_weak(w)

\* the host creates, clones and drops strong handles, and reads and writes properties
PropNext ==
    \/ \E i \in Instances : create(i)
    \/ \E h \in HandleIds : clone_strong(h)
    \/ \E h \in HandleIds : drop_strong(h)
    \/ \E h \in HandleIds, name \in PropertyNames : get_property(h, name)
    \/ \E h \in HandleIds, name \in PropertyNames, value \in HostValues : set_property(h, name, value)

\* the host creates, clones and drops strong handles, reads properties, and sets and invokes callbacks
CallbackNext ==
    \/ \E i \in Instances : create(i)
    \/ \E h \in HandleIds : clone_strong(h)
    \/ \E h \in HandleIds : drop_strong(h)
    \/ \E h \in HandleIds, name \in PropertyNames : get_property(h, name)
    \/ \E h \in HandleIds, name \in CallbackNames, k \in Handlers : set_callback(h, name, k)
    \/ \E h \in HandleIds, name \in CallbackNames, args \in ArgLists : invoke_callback(h, name, args)

\* the host registers handlers for the declared callbacks and invokes them
HandlerNext ==
    \/ \E i \in Instances : create(i)
    \/ \E h \in HandleIds, name \in DeclaredCallbacks, k \in Handlers : set_callback(h, name, k)
    \/ \E h \in HandleIds, name \in DeclaredCallbacks, args \in ArgLists :
          invoke_callback(h, name, args)

Next == LifeNext \/ PropNext \/ CallbackNext \/ HandlerNext

\* every operation, in any order
Spec == Init /\ [][Next]_vars

LifeSpec == Init /\ [][LifeNext]_vars

PropSpec == Init /\ [][PropNext]_vars

CallbackSpec == Init /\ [][CallbackNext]_vars

HandlerSpec == Init /\ [][HandlerNext]_vars

\* the host converts values; no handle is touched
ConvSpec == ConvInit /\ [][ConvNext]_vars

(***************************************************************************)
(* Equality of Values.                                                     *)
(***************************************************************************)
\* the allocations of host models: rc1 and rc2 hold equal rows, rc3 other rows
ModelAllocs == {"rc1", "rc2", "rc3"}
ModelData(rc) == IF rc = "rc3" THEN <<Number(F64OfNat(1))>> ELSE <<>>

\* Rc::ptr_eq: the two Rc point to the same allocation
Rc_ptr_eq(lhs, rhs) == lhs = rhs

\* == of f64: NaN equals nothing, -0.0 equals 0.0
F64Eq(lhs, rhs) ==
    IF lhs.cls = "nan" \/ rhs.cls = "nan" THEN FALSE
    ELSE IF lhs.cls = "fin" /\ rhs.cls = "fin" /\ lhs.sig = <<>> /\ rhs.sig = <<>> THEN TRUE
    ELSE lhs = rhs

RECURSIVE eq(_, _)
\* == of SharedVector<Value>: the same length and equal items
SharedVectorEq(lhs, rhs) ==
    /\ Len(lhs) = Len(rhs)
    /\ \A k \in 1..Len(lhs) : eq(lhs[k], rhs[k])

\* == of Struct(HashMap<String, Value>): the same keys with equal values
StructEq(lhs, rhs) ==
    /\ DOMAIN lhs = DOMAIN rhs
    /\ \A n \in DOMAIN lhs : eq(lhs[n], rhs[n])

\* an equality that looks at the rows of two models
eq_by_contents(self, other) ==
    CASE self.tag = "Model" -> other.tag = "Model" /\ ModelData(self.rc) = ModelData(other.rc)
      [] OTHER -> self.tag = other.tag /\ self = other

\* PartialEq::eq for Value
eq(self, other) ==
    CASE self.tag = "Void" -> other.tag = "Void"
      [] self.tag = "Number" -> other.tag = "Number" /\ F64Eq(self.num, other.num)
      [] self.tag = "String" -> other.tag = "String" /\ self.str = other.str
      [] self.tag = "Bool" -> other.tag = "Bool" /\ self.bool = other.bool
      [] self.tag = "Image" -> other.tag = "Image" /\ self.img = other.img
      [] self.tag = "Array" -> other.tag = "Array" /\ SharedVectorEq(self.items, other.items)
      [] self.tag = "Model" -> other.tag = "Model" /\ Rc_ptr_eq(self.rc, other.rc)
      [] self.tag = "Struct" -> other.tag = "Struct" /\ StructEq(self.fields, other.fields)
      [] self.tag = "Brush" -> other.tag = "Brush" /\ self.brush = other.brush
      [] self.tag = "PathElements" -> other.tag = "PathElements" /\ self.path = other.path
      [] self.tag = "EasingCurve" -> other.tag = "EasingCurve" /\ self.curve = other.curve
      [] self.tag = "EnumerationValue" ->
            /\ other.tag = "EnumerationValue"
            /\ self.name = other.name /\ self.value = other.value

\* the Values the host may compare: every variant, with similar values of different variants
EqSamples ==
    SampleValues
    \cup {Model(rc) : rc \in ModelAllocs}
    \cup {Number(Fin(TRUE, <<>>, 0)), Number(F64OfNat(1)), String(""), String("true"),
          Array(<<Number(F64OfNat(1))>>), Array(<<Number(NaN)>>),
          Struct([n \in {"text"} |-> String("")]),
          EnumerationValue("TextWrap", "no_wrap"), EnumerationValue("TextOverflow", "clip")}

EqInit ==
    /\ handles = [h \in HandleIds |-> Free]
    /\ strongCount = [i \in Instances |-> 0]
    /\ weakCount = [i \in Instances |-> 0]
    /\ status = [i \in Instances |-> "fresh"]
    /\ dropCount = [i \in Instances |-> 0]
    /\ props = [i \in Instances |-> DefaultProps]
    /\ callbacks = [i \in Instances |-> NoHandlers]
    /\ result = Res("none", "", "unit", Void, NoRun)
    /\ conv \in {[op |-> "input", kind |-> "eq", lhs |-> l, rhs |-> r] :
                    l \in EqSamples, r \in EqSamples}

\* lhs == rhs
value_eq ==
    /\ conv.op = "input" /\ conv.kind = "eq"
    /\ conv' = [op |-> "eq", lhs |-> conv.lhs, rhs |-> conv.rhs, out |-> eq(conv.lhs, conv.rhs)]
    /\ UNCHANGED handleVars

EqNext == value_eq

EqSpec == EqInit /\ [][EqNext]_vars

(***************************************************************************)
(* Strong and weak handles.                                                *)
(***************************************************************************)
StrongHandlesOf(i) == {h \in HandleIds : IsStrong(h) /\ InstOf(h) = i}
WeakHandlesOf(i) == {h \in HandleIds : IsWeak(h) /\ InstOf(h) = i}

\* C1: upgrade on any weak handle returns a new strong handle on the same
\* instance while the instance's strong count is greater than 0, and returns
\* None, creating no handle, once the strong count is 0.
C1_UpgradeFollowsStrongCount ==
    [][\A w \in HandleIds : upgrade(w) =>
          IF strongCount[InstOf(w)] > 0
          THEN /\ result'.outcome = "Some"
               /\ handles'[NewSlot] = StrongHandle(InstOf(w))
               /\ strongCount'[InstOf(w)] = strongCount[InstOf(w)] + 1
               /\ status'[InstOf(w)] = "alive"
          ELSE /\ result'.outcome = "None"
               /\ handles' = handles
               /\ strongCount' = strongCount
               /\ status'[InstOf(w)] = "destroyed"]_vars

\* an upgrade returned None on a weak handle that outlived the last strong handle,
\* while another instance still has a strong handle
C1_Witness ==
    /\ result.op = "upgrade"
    /\ result.outcome = "None"
    /\ \E w \in HandleIds : IsWeak(w) /\ strongCount[InstOf(w)] = 0
    /\ \E h \in HandleIds : IsStrong(h)

C2_AliveIffStrong ==
    \A i \in Instances :
        /\ strongCount[i] = Cardinality(StrongHandlesOf(i))
        /\ (status[i] = "alive") <=> (StrongHandlesOf(i) # {})
        /\ dropCount[i] = (IF status[i] = "destroyed" THEN 1 ELSE 0)

C2_DestroyedOnLastDrop ==
    \A i \in Instances :
        /\ status[i] = "destroyed" => status'[i] = "destroyed"
        /\ status[i] = "alive" /\ status'[i] = "destroyed" =>
              /\ result'.op = "drop"
              /\ Cardinality(StrongHandlesOf(i)) = 1
        /\ result'.op = "as_weak" => strongCount' = strongCount /\ status' = status

\* C2: an instance is alive exactly while at least one strong handle to it
\* exists (weak handles do not count), it is destroyed by the drop of its last
\* strong handle, at most once, and stays destroyed; as_weak leaves the strong
\* count unchanged.
C2_DestroyedExactlyOnLastStrongDrop ==
    []C2_AliveIffStrong /\ [][C2_DestroyedOnLastDrop]_vars

\* an instance was destroyed while weak handles to it remain
C2_Witness ==
    \E i \in Instances :
        /\ status[i] = "destroyed"
        /\ dropCount[i] = 1
        /\ WeakHandlesOf(i) # {}
        /\ result.op = "drop"

\* C3: clone_strong adds exactly one to the strong count of the handle's
\* instance and creates no instance; a set_property through a strong handle is
\* what get_property then returns through every strong handle of that instance.
C3_CloneSharesInstance ==
    [][/\ \A h \in HandleIds : clone_strong(h) =>
             /\ handles'[NewSlot] = StrongHandle(InstOf(h))
             /\ strongCount' = [strongCount EXCEPT ![InstOf(h)] = @ + 1]
             /\ status' = status
             /\ props' = props
       /\ \A h \in HandleIds, name \in DeclaredProperties, value \in HostValues :
             set_property(h, name, value) /\ result'.outcome = "Ok" =>
                \A h2 \in StrongHandlesOf(InstOf(h)) :
                    get_property_result(h2, name)' = Res("get_property", name, "Ok", value, NoRun)]_vars

\* two strong handles share an instance whose property was set, a second instance
\* keeps its own value, and get_property returned the value set
C3_Witness ==
    /\ result.op = "get_property"
    /\ result.value = Number(F64OfNat(1))
    /\ \E i, j \in Instances :
          /\ Cardinality(StrongHandlesOf(i)) >= 2
          /\ props[i]["count"] = Number(F64OfNat(1))
          /\ status[j] = "alive"
          /\ props[j]["count"] = Number(F64OfNat(0))

\* C4: set_property on an undeclared name returns NoSuchProperty, on a declared
\* name with a value of another variant than the declared type it returns
\* WrongType, and in both cases the properties are unchanged.
C4_SetPropertyTypedErrors ==
    [][\A h \in HandleIds, name \in PropertyNames, value \in HostValues :
          set_property(h, name, value) =>
             /\ name \notin DeclaredProperties =>
                   result'.outcome = "NoSuchProperty" /\ props' = props
             /\ name \in DeclaredProperties /\ value.tag # PropertyType(name) =>
                   result'.outcome = "WrongType" /\ props' = props]_vars

\* C5: invoke_callback on an undeclared name returns NoSuchCallback and runs no handler.
C5_InvokeCallbackTypedError ==
    [][\A h \in HandleIds, name \in CallbackNames, args \in ArgLists :
          invoke_callback(h, name, args) /\ name \notin DeclaredCallbacks =>
             /\ result'.outcome = "NoSuchCallback"
             /\ result'.ran = NoRun]_vars

\* C6: get_property on an undeclared name returns NoSuchProperty, set_callback
\* on an undeclared name returns NoSuchCallback, and neither changes a property
\* value or a registered handler.
C6_FailedLookupsHaveNoEffect ==
    [][/\ \A h \in HandleIds, name \in PropertyNames \ DeclaredProperties :
             get_property(h, name) =>
                /\ result'.outcome = "NoSuchProperty"
                /\ props' = props /\ callbacks' = callbacks
       /\ \A h \in HandleIds, name \in CallbackNames \ DeclaredCallbacks, k \in Handlers :
             set_callback(h, name, k) =>
                /\ result'.outcome = "NoSuchCallback"
                /\ props' = props /\ callbacks' = callbacks]_vars

\* a set_callback on an undeclared name failed on an instance that has a handler registered
C6_Witness ==
    /\ result.op = "set_callback"
    /\ result.name = "nonexistent"
    /\ result.outcome = "NoSuchCallback"
    /\ \E h \in HandleIds : IsStrong(h) /\ callbacks[InstOf(h)]["increment"] = "h1"

(***************************************************************************)
(* Conversions.                                                            *)
(***************************************************************************)
FailedTryInto == conv.op = "try_into" /\ ~conv.out.ok

NativeEq(ty, a, b) == IF ty \in NumberTypes THEN NativeNumEq(a, b) ELSE a = b

\* C8 as stated: for every type of declare_value_conversion! and every value v,
\* Value::from(v).try_into() is Ok(v).
C8_RoundTripAll ==
    conv.op = "round_trip" /\ conv.ty \in PrimTypes =>
        conv.out.ok /\ NativeEq(conv.ty, conv.out.val, conv.native)

\* the values of ty that f64 holds exactly and that equal themselves
ExactInF64(ty, v) ==
    IF ty \in {"u64", "i64", "usize", "isize"} THEN ~BitsLess(Pow2(53), v.mag)
    ELSE IF ty \in FloatTypes THEN v.cls # "nan"
    ELSE TRUE

\* C8: Value::from(v).try_into() is Ok(v) for every v of u32, i32, bool,
\* SharedString and the other non-numeric types, for every v of f32 and f64
\* but NaN, and for the v of u64, i64, usize and isize with |v| <= 2^53;
\* 2^53 + 1 comes back as 2^53.
C8_RoundTripExact ==
    /\ conv.op = "round_trip" /\ conv.ty \in PrimTypes /\ ExactInF64(conv.ty, conv.native) =>
          conv.out.ok /\ NativeEq(conv.ty, conv.out.val, conv.native)
    /\ conv.op = "round_trip" /\ conv.ty \in {"u64", "usize"}
          /\ conv.native = IntVal(FALSE, Pow2_53Plus1) =>
          conv.out = Ok(IntVal(FALSE, Pow2(53)))

\* 2^53 as u64 went to a Value and back unchanged
C8_Witness ==
    /\ conv.op = "round_trip"
    /\ conv.ty = "u64"
    /\ conv.native = IntVal(FALSE, Pow2(53))
    /\ conv.value = Number(Fin(FALSE, <<1>>, 53))
    /\ conv.out = Ok(conv.native)

StructTryInto == conv.op = "try_into" /\ conv.ty \in StructTypes /\ conv.value.tag = "Struct"

\* the Record holds a value for the declared field f that converts to the field's type
Convertible(ty, x, f) == f \in DOMAIN x /\ TryInto(FieldType(ty, f), x[f]).ok

WithoutExtraFields(ty, x) == [f \in DOMAIN x \cap FieldNames(ty) |-> x[f]]

\* C9 as stated: a Record with a convertible value for every declared field
\* converts to the native record with each field equal to the stored value; a
\* missing or not convertible field fails the whole conversion; extra fields
\* change nothing.
C9_RecordFieldsEqualStored ==
    StructTryInto =>
        LET ty == conv.ty
            x == conv.value.fields
        IN  /\ (\A f \in FieldNames(ty) : Convertible(ty, x, f)) =>
                  /\ conv.out.ok
                  /\ DOMAIN conv.out.val.f = FieldNames(ty)
                  /\ \A f \in FieldNames(ty) : From(FieldType(ty, f), conv.out.val.f[f]) = x[f]
            /\ (\E f \in FieldNames(ty) : ~Convertible(ty, x, f)) => conv.out = Err(NUnit)
            /\ conv.out = TryInto(ty, Struct(WithoutExtraFields(ty, x)))

\* C9: a Record with a convertible value for every declared field converts to
\* the native record with each field the stored value converted to the field's
\* type (a stored number is cast with `as`: 1.5 is 1 in an i32 field); a missing
\* or not convertible field fails the whole conversion; extra fields change nothing.
C9_RecordFieldsConverted ==
    StructTryInto =>
        LET ty == conv.ty
            x == conv.value.fields
        IN  /\ (\A f \in FieldNames(ty) : Convertible(ty, x, f)) =>
                  /\ conv.out.ok
                  /\ conv.out.val.record = ty
                  /\ DOMAIN conv.out.val.f = FieldNames(ty)
                  /\ \A f \in FieldNames(ty) :
                        conv.out.val.f[f] = TryInto(FieldType(ty, f), x[f]).val
            /\ (\E f \in FieldNames(ty) : ~Convertible(ty, x, f)) => conv.out = Err(NUnit)
            /\ conv.out = TryInto(ty, Struct(WithoutExtraFields(ty, x)))

\* the Record {text: "hello"} with an extra field converted to a StandardListViewItem
C9_Witness ==
    /\ StructTryInto
    /\ conv.ty = "StandardListViewItem"
    /\ DOMAIN conv.value.fields = {"text", "extra"}
    /\ conv.value.fields["text"] = String("hello")
    /\ conv.out = Ok(NRecord("StandardListViewItem", [n \in {"text"} |-> NStr("hello")]))

\* C10: converting a member m of a declared enumeration to a Value stores the
\* enumeration's declared name with m's text and converting back yields m; an
\* EnumerationValue with another type name does not convert, whatever its text.
C10_EnumNameAndMember ==
    /\ conv.op = "round_trip" /\ conv.ty \in EnumTypes =>
          /\ conv.value.tag = "EnumerationValue"
          /\ conv.value.name = conv.ty
          /\ conv.value.value = Members(conv.ty)[conv.native.member]
          /\ conv.out = Ok(conv.native)
    /\ conv.op = "try_into" /\ conv.ty \in EnumTypes /\ conv.value.tag = "EnumerationValue"
          /\ conv.value.name # conv.ty =>
          conv.out = Err(NUnit)

\* align_center of TextHorizontalAlignment did not convert to TextVerticalAlignment,
\* which has a member of that text
C10_Witness ==
    /\ conv.op = "try_into"
    /\ conv.ty = "TextVerticalAlignment"
    /\ conv.value = EnumerationValue("TextHorizontalAlignment", "align_center")
    /\ from_str(conv.ty, conv.value.value).ok
    /\ ~conv.out.ok

(***************************************************************************)
(* Equality.                                                               *)
(***************************************************************************)
\* C11: two Values of different variants are never equal, and two Model
\* values are equal exactly when they hold the same shared allocation,
\* whatever the rows of the models.
C11_EqualityWithinVariant ==
    conv.op = "eq" =>
        /\ conv.lhs.tag # conv.rhs.tag => conv.out = FALSE
        /\ conv.lhs.tag = "Model" /\ conv.rhs.tag = "Model" =>
              conv.out = (conv.lhs.rc = conv.rhs.rc)

\* two models with equal rows in different allocations compared unequal
C11_Witness ==
    /\ conv.op = "eq"
    /\ conv.lhs = Model("rc1")
    /\ conv.rhs = Model("rc2")
    /\ ModelData("rc1") = ModelData("rc2")
    /\ conv.out = FALSE

(***************************************************************************)
(* Callback handlers.                                                      *)
(***************************************************************************)
\* C12: a successful set_callback makes its handler the one registered for the
\* name on that instance, whatever was registered before, and leaves the
\* handlers of the other names and instances alone; nothing else changes a
\* registration; invoke_callback on a name with a registered handler runs that
\* handler, the most recently registered one, once with the given args before
\* it returns, and returns the handler's result.
C12_SetCallbackReplacesHandler ==
    [][/\ \A h \in HandleIds, name \in DeclaredCallbacks, k \in Handlers :
             set_callback(h, name, k) =>
                /\ result'.outcome = "Ok"
                /\ callbacks'[InstOf(h)][name] = k
                /\ \A i \in Instances, n \in DeclaredCallbacks :
                      (i # InstOf(h) \/ n # name) => callbacks'[i][n] = callbacks[i][n]
       /\ \A i \in Instances, n \in DeclaredCallbacks :
             callbacks'[i][n] # callbacks[i][n] =>
                \E h \in HandleIds : IsStrong(h) /\ InstOf(h) = i /\ result'.op = "set_callback"
                                     /\ result'.name = n
       /\ \A h \in HandleIds, name \in DeclaredCallbacks, args \in ArgLists :
             invoke_callback(h, name, args) /\ callbacks[InstOf(h)][name] # "" =>
                /\ result'.outcome = "Ok"
                /\ result'.ran = Ran(callbacks[InstOf(h)][name], args)
                /\ result'.value = HandlerResult(callbacks[InstOf(h)][name], args)
                /\ callbacks' = callbacks]_vars

\* increment was invoked with an argument on an instance whose handlers are h2
\* for increment and h1 for reset, and h2 ran
C12_Witness ==
    /\ result.op = "invoke_callback"
    /\ result.name = "increment"
    /\ result.outcome = "Ok"
    /\ result.ran = Ran("h2", <<Bool(TRUE)>>)
    /\ result.value = HandlerResult("h2", <<Bool(TRUE)>>)
    /\ \E h \in HandleIds :
          /\ IsStrong(h)
          /\ callbacks[InstOf(h)]["increment"] = "h2"
          /\ callbacks[InstOf(h)]["reset"] = "h1"

====
